---------------------------- MODULE Spec2Model ----------------------------
(***************************************************************************)
(* cloud_mdir_sync: the synchronizing loop of main.py (synchronize_mail,   *)
(* force_local_to_cloud, update_cloud_from_local) over the configuration   *)
(* of config.py, and the OAUTH web server of oauth.py.                     *)
(*                                                                         *)
(* The program runs on one asyncio event loop: code between two awaits is  *)
(* one atomic step.  Tasks started by asyncio.gather run on while the      *)
(* awaiting coroutine is suspended; when one of them raises, gather raises *)
(* at once and the others keep running unawaited.                          *)
(***************************************************************************)
EXTENDS Integers, Sequences, FiniteSets, TLC

(* ------------------------------ bounds -------------------------------- *)
\* failures of update_message_list, merge_content and force_content the
\* environment injects
MaxFaults == 2
\* external changes (cloud side or maildir side) the environment makes
MaxChanges == 1

(* --------------------------- value universes --------------------------- *)
Locals == {"l1", "l2"}
Clouds == {"c1", "c2"}
Keys == {"k1", "k2"}
Contents == {"a", "b"}

\* dict.get()'s None, and the local half of a tuple of a deleted message
NoMsg == [mailbox |-> "none", content |-> "none"]

\* the empty dict
EmptyDict == [k \in {} |-> NoMsg]

Range(s) == {s[i] : i \in DOMAIN s}

Max(S) == CHOOSE x \in S : \A y \in S : y <= x

Get(d, k) == IF k \in DOMAIN d THEN d[k] ELSE NoMsg

(* ---------------------------- error kinds ------------------------------ *)
\* exception classes the awaited operations can raise, with their base class
ErrorKinds == {"FileNotFoundError", "OSError", "TimeoutError", "ClientError",
               "RuntimeError", "KeyError"}

BaseOf(e) == IF e = "FileNotFoundError" THEN "OSError" ELSE "Exception"

IsInstance(e, cls) == e = cls \/ BaseOf(e) = cls

\* the except clause without IOError
RetryCaughtNoIOError(e) ==
    \E cls \in {"FileNotFoundError", "TimeoutError", "ClientError", "RuntimeError"} :
        IsInstance(e, cls)

\* a bare except clause
RetryCaughtAll(e) == TRUE

\* main.py lines 69-71: the classes the except clause names (IOError is
\* OSError)
RetryCaught(e) ==
    \E cls \in {"FileNotFoundError", "TimeoutError", "ClientError", "OSError",
                "RuntimeError"} : IsInstance(e, cls)

\* asyncio.sleep(10)
SleepInterval == 10

VARIABLES
    \* config.Config
    local_mboxes, cloud_mboxes, direct_message, domains,
    \* mailbox.Mailbox, per mailbox; store is what is on disk or at the provider
    messages, need_update, store, changed_event,
    \* provider sessions, per domain
    session,
    \* oauth.WebServer
    runner, listening,
    \* synchronize_mail's frame
    pc, msgs, exc, tasks,
    \* what the loop did, kept for the properties
    logged, slept, faults, raised, changes, force_done, quiet,
    routed, diff, forced, merged, cleaned, stale, failed_at, last_ok,
    \* the exception classes the operations of this run raise
    kinds,
    \* oauth.WebServer.auth_redirs, the queues auth_redir creates and the
    \* coroutines that called auth_redir
    auth_redirs, queues, callers,
    \* the last request the web server handled and its response
    request, response,
    \* the auth_redir calls and the queue puts so far, in order, and the
    \* number of callback requests handled
    registered, resolved, hits

engineVars == <<local_mboxes, cloud_mboxes, direct_message, domains, messages,
                need_update, store, changed_event, session, runner, listening,
                pc, msgs, exc, tasks, logged, slept, faults, raised, changes,
                force_done, quiet, routed, diff, forced, merged, cleaned,
                stale, failed_at, last_ok, kinds>>

authVars == <<auth_redirs, queues, callers, request, response, registered,
              resolved, hits>>

vars == <<engineVars, authVars>>

cfgVars == <<local_mboxes, cloud_mboxes, direct_message, kinds>>
mboxVars == <<messages, need_update, store>>
webVars == <<runner, listening>>
callVars == <<routed, diff, forced, merged>>


(* ----------------------------- config.py ------------------------------- *)
\* Config.all_mboxes: the local mailboxes, then the cloud ones
all_mboxes == local_mboxes \o cloud_mboxes

\* Config._direct_message, the default policy
_direct_message(msg) == local_mboxes[1]

\* the policies a configuration script can install in cfg.direct_message:
\* the default one, one maildir per cloud mailbox, one maildir per content
Policies(ls, cs) ==
    {[msg \in [mailbox : Range(cs), content : Contents] |-> _direct_message(msg)]}
    \cup {[msg \in [mailbox : Range(cs), content : Contents] |-> f[msg.mailbox]] :
              f \in [Range(cs) -> Range(ls)]}
    \cup {[msg \in [mailbox : Range(cs), content : Contents] |-> f[msg.content]] :
              f \in [Contents -> Range(ls)]}

\* the API domain (account) a cloud mailbox authenticates in
DomainOf(c) == IF c = "c1" THEN "d1" ELSE "d2"

Domains == {DomainOf(c) : c \in Clouds}

(* --------------------- the Mailbox contract (spec 4.2) ----------------- *)
\* Mailbox.same_messages: the snapshot against a candidate dict, by content;
\* in tuple form the candidate holds (local, cloud) pairs and the local half
\* is the one compared
same_messages(mbox, mdict, tuple_form) ==
    /\ DOMAIN messages[mbox] = DOMAIN mdict
    /\ \A ch \in DOMAIN mdict :
          LET msg == IF tuple_form THEN mdict[ch][1] ELSE mdict[ch]
          IN  /\ msg # NoMsg
              /\ msg.content = messages[mbox][ch].content

\* Mailbox.force_content: the maildir's content once it matches the target
force_content(mbox, target) ==
    [ch \in DOMAIN target |-> [mailbox |-> mbox, content |-> target[ch].content]]

\* Mailbox.merge_content on a cloud content cur: a key whose local half is
\* gone is deleted, one whose local half differs takes the local content,
\* keys outside the tuple set are left alone
merge_content(mbox, cur, tuples) ==
    LET gone == {ch \in DOMAIN tuples : tuples[ch][1] = NoMsg}
        kept == (DOMAIN cur \cup DOMAIN tuples) \ gone
    IN  [ch \in kept |->
            IF ch \in DOMAIN tuples
            THEN [mailbox |-> mbox, content |-> tuples[ch][1].content]
            ELSE cur[ch]]

(* ------------------------------ main.py -------------------------------- *)
\* routing by the default policy whatever cfg.direct_message holds
RouteMboxDefault(acc, mbox) ==
    [dest \in DOMAIN acc |->
        LET mine == {ch \in DOMAIN messages[mbox] :
                        _direct_message(messages[mbox][ch]) = dest}
        IN  [ch \in DOMAIN acc[dest] \cup mine |->
                IF ch \in mine THEN messages[mbox][ch] ELSE acc[dest][ch]]]

\* force_local_to_cloud, lines 23-25: one cloud mailbox's messages put in
\* the dict of the maildir each is directed to, under its own key
RouteMbox(acc, mbox) ==
    [dest \in DOMAIN acc |->
        LET mine == {ch \in DOMAIN messages[mbox] :
                        direct_message[messages[mbox][ch]] = dest}
        IN  [ch \in DOMAIN acc[dest] \cup mine |->
                IF ch \in mine THEN messages[mbox][ch] ELSE acc[dest][ch]]]

RECURSIVE RouteClouds(_, _)
\* force_local_to_cloud, line 22: the cloud mailboxes in configuration order
RouteClouds(acc, i) ==
    IF i > Len(cloud_mboxes) THEN acc
    ELSE RouteClouds(RouteMbox(acc, cloud_mboxes[i]), i + 1)

\* force_local_to_cloud, lines 19-25: msgs, a dict for every maildir
Route == RouteClouds([mbox \in Range(local_mboxes) |-> EmptyDict], 1)

\* a loop that forces every maildir, whatever same_messages says
NeedsForceAlways(mbox, target) ==
    TRUE

\* force_local_to_cloud, line 28
NeedsForce(mbox, target) == ~same_messages(mbox, target[mbox], FALSE)

\* force_local_to_cloud, lines 27-29: the maildirs forced by the first n
\* rounds of the loop
ForcedUpTo(target, n) ==
    {local_mboxes[i] : i \in {j \in 1..n : NeedsForce(local_mboxes[j], target)}}

\* update_cloud_from_local, lines 40-43: the maildir whose entry for
\* (cloud mailbox, key) is written last
LastLocalOf(by_local, mbox, ch) ==
    local_mboxes[Max({i \in DOMAIN local_mboxes :
        /\ ch \in DOMAIN by_local[local_mboxes[i]]
        /\ by_local[local_mboxes[i]][ch].mailbox = mbox})]

\* a diff that also lists, for the first cloud mailbox, the keys a maildir
\* holds and the routing does not, with no cloud record
MsgsByCloudLocalKeys(by_local) ==
    [mbox \in Range(cloud_mboxes) |->
        LET chs == {ch \in Keys : \E l \in DOMAIN by_local :
                       /\ ch \in DOMAIN by_local[l]
                       /\ by_local[l][ch].mailbox = mbox}
            new == IF mbox # cloud_mboxes[1] THEN {}
                   ELSE {ch \in Keys :
                            (\E o \in DOMAIN by_local : ch \in DOMAIN messages[o])
                            /\ (\A o \in DOMAIN by_local : ch \notin DOMAIN by_local[o])}
        IN  [ch \in chs \cup new |->
                IF ch \in chs
                THEN LET l == LastLocalOf(by_local, mbox, ch)
                     IN  <<Get(messages[l], ch), by_local[l][ch]>>
                ELSE LET own == CHOOSE o \in DOMAIN by_local : ch \in DOMAIN messages[o]
                     IN  <<messages[own][ch], NoMsg>>]]

\* update_cloud_from_local, lines 37-43: msgs_by_cloud
MsgsByCloud(by_local) ==
    [mbox \in Range(cloud_mboxes) |->
        LET chs == {ch \in Keys : \E l \in DOMAIN by_local :
                       /\ ch \in DOMAIN by_local[l]
                       /\ by_local[l][ch].mailbox = mbox}
        IN  [ch \in chs |->
                LET l == LastLocalOf(by_local, mbox, ch)
                IN  <<Get(messages[l], ch), by_local[l][ch]>>]]

\* update_cloud_from_local, lines 44-46: the mailboxes merge_content runs on
NeedsMerge(by_cloud) ==
    {mbox \in DOMAIN by_cloud : ~same_messages(mbox, by_cloud[mbox], TRUE)}

(* ------------------------------- tasks --------------------------------- *)
\* a coroutine wrapped by asyncio.gather: awaited while the gather that
\* started it is still pending, unawaited once that gather has raised
Task(op, on, arg) == [op |-> op, on |-> on, awaited |-> TRUE, arg |-> arg]

Awaited == {t \in tasks : t.awaited}

Orphaned(ts) == {[t EXCEPT !.awaited = FALSE] : t \in ts}

\* the points of the loop where synchronize_mail is suspended in an await and
\* the event loop runs the mailbox coroutines.  (In the finally block only the
\* close coroutines are followed: what a leftover mailbox coroutine does then
\* touches nothing the teardown reads.)
Suspended == {"setup", "refresh", "merge", "sleep", "wait"}

\* a finally block that closes no domain
BeginTeardownNoClose(e, rest) ==
    /\ exc' = e
    /\ failed_at' = pc
    /\ tasks' = rest
    /\ pc' = "td_domains"

\* main.py lines 81-83: the finally block starts domain.close() on every
\* domain of cfg.domains; e is the exception in flight, rest the other tasks
BeginTeardown(e, rest) ==
    /\ exc' = e
    /\ failed_at' = pc
    /\ tasks' = rest \cup {Task("close", d, EmptyDict) : d \in domains}
    /\ pc' = "td_domains"

\* main.py lines 69-75: the except clause of the update cycle, or the
\* exception leaving the loop
RetryOrRaise(e, rest) ==
    IF RetryCaught(e)
    THEN /\ logged' = TRUE
         /\ slept' = SleepInterval
         /\ faults' = faults + 1
         /\ tasks' = rest
         /\ pc' = "sleep"
         /\ exc' = e
         /\ failed_at' = pc
         /\ quiet' = 0
    ELSE /\ BeginTeardown(e, rest)
         /\ quiet' = 0
         /\ UNCHANGED <<logged, slept, faults>>

\* an except clause that also covers what is outside the update cycle
RaiseOutsideCaught(e, rest) ==
    RetryOrRaise(e, rest)

\* an exception raised outside the inner try (main.py lines 53-56 and
\* 77-79): no except clause is in its way to the finally block
RaiseOutside(e, rest) ==
    /\ BeginTeardown(e, rest)
    /\ UNCHANGED <<logged, slept, faults, quiet>>

\* main.py lines 59-63: the top of the loop starts update_message_list on
\* every mailbox that needs an update; rest are the tasks already running
LoopTop(rest) ==
    /\ tasks' = rest \cup {Task("update", all_mboxes[i], EmptyDict) :
                              i \in {j \in DOMAIN all_mboxes : need_update[all_mboxes[j]]}}
    /\ pc' = "refresh"
    /\ stale' = FALSE
    /\ routed' = << >>
    /\ diff' = << >>
    /\ forced' = {}
    /\ merged' = {}

(* ------------------------------ oauth.py ------------------------------- *)
\* callback requests the browser makes
MaxCallbacks == 3

\* the coroutines that may call auth_redir, each once
Callers == {"p1", "p2", "p3"}
\* the state tokens of the flows; a callback may also carry "s0", the
\* token of no flow
Tokens == {"s1", "s2", "s3"}
\* the authorization URL of each caller's flow
Urls == [p \in Callers |-> IF p = "p1" THEN "u1" ELSE IF p = "p2" THEN "u2" ELSE "u3"]
\* the code parameter of the n-th callback request
Codes(n) == IF n = 1 THEN "x" ELSE IF n = 2 THEN "y" ELSE "z"

\* request.query of a callback request: the state parameter may be missing
Queries(n) ==
    [state : Tokens \cup {"s0"}, code : {Codes(n)}] \cup [code : {Codes(n)}]

NoQuery == [code |-> "none"]
NoCall == [at |-> "idle", state |-> "none", url |-> "none", result |-> NoQuery]

\* the answers of the two handlers
HTTPFound(location) == [status |-> "302 Found", body |-> location]
Response(text) == [status |-> "200 OK", body |-> text]
ServerError(e) == [status |-> "500 Internal Server Error", body |-> e]
NoResponse == [status |-> "none", body |-> "none"]

\* a GET request: its path and its query parameters
Request(path, query) == [path |-> path, query |-> query]
NoRequest == Request("none", NoQuery)

\* WebServer.url
url == "http://localhost:8080/"

\* a dict that keeps the earlier entry of a key next to the new one
DictSetAppend(d, entry) ==
    Append(d, entry)

\* a dict in insertion order, as a sequence of entries with distinct
\* keys: d[state] = entry keeps the place of a key that is present
DictSet(d, entry) ==
    IF \E i \in DOMAIN d : d[i].state = entry.state
    THEN [i \in DOMAIN d |-> IF d[i].state = entry.state THEN entry ELSE d[i]]
    ELSE Append(d, entry)

\* del d[key], for the entry at place i
DictDel(d, i) ==
    [j \in 1..(Len(d) - 1) |-> IF j < i THEN d[j] ELSE d[j + 1]]

EntryIndexAny(d, state) ==
    IF d = << >> THEN 0 ELSE 1

\* self.auth_redirs[state]: the place of the entry under the key, 0 for
\* a KeyError
EntryIndex(d, state) ==
    IF \E i \in DOMAIN d : d[i].state = state
    THEN CHOOSE i \in DOMAIN d : d[i].state = state
    ELSE 0

\* a handler that never looks at the pending entries
RedirectOrNever(d, otherwise) ==
    otherwise

\* "for I in self.auth_redirs.values(): raise HTTPFound(I[0])", then what
\* the handler does when the dict is empty
RedirectOr(d, otherwise) ==
    IF d # << >> THEN HTTPFound(d[1].url) ELSE otherwise

\* WebServer.__init__
InitWebServer ==
    /\ auth_redirs = << >>
    /\ queues = [p \in Callers |-> << >>]
    /\ callers = [p \in Callers |-> NoCall]
    /\ request = NoRequest
    /\ response = NoResponse
    /\ registered = << >>
    /\ resolved = << >>
    /\ hits = 0

\* auth_redir up to its await: a new queue, which only this call holds,
\* is stored under the state token and the caller suspends in queue.get()
auth_redir(p, u, state) ==
    /\ callers[p].at = "idle"
    /\ auth_redirs' = DictSet(auth_redirs, [state |-> state, url |-> u, queue |-> p])
    /\ callers' = [callers EXCEPT ![p] =
                      [at |-> "get", state |-> state, url |-> u, result |-> NoQuery]]
    /\ registered' = Append(registered, p)
    /\ UNCHANGED <<queues, request, response, resolved, hits>>
    /\ UNCHANGED engineVars

\* "return await queue.get()": the caller resumes with the item in its queue
QueueGet(p) ==
    /\ callers[p].at = "get"
    /\ queues[p] # << >>
    /\ callers' = [callers EXCEPT ![p].at = "returned", ![p].result = Head(queues[p])]
    /\ queues' = [queues EXCEPT ![p] = Tail(queues[p])]
    /\ UNCHANGED <<auth_redirs, request, response, registered, resolved, hits>>
    /\ UNCHANGED engineVars

\* GET /
_start ==
    /\ listening
    /\ request' = Request("/", NoQuery)
    /\ response' = RedirectOr(auth_redirs, Response("Authentication done"))
    /\ UNCHANGED <<auth_redirs, queues, callers, registered, resolved, hits>>
    /\ UNCHANGED engineVars

\* GET /oauth2/msal?...: a missing state parameter raises KeyError out of
\* the handler; a state that is no key of auth_redirs is passed over
_oauth2_msal(query) ==
    /\ listening
    /\ hits < MaxCallbacks
    /\ hits' = hits + 1
    /\ request' = Request("/oauth2/msal", query)
    /\ IF "state" \notin DOMAIN query
       THEN /\ response' = ServerError("KeyError")
            /\ UNCHANGED <<auth_redirs, queues, resolved>>
       ELSE LET i == EntryIndex(auth_redirs, query.state)
            IN  /\ IF i = 0
                   THEN UNCHANGED <<auth_redirs, queues, resolved>>
                   ELSE /\ auth_redirs' = DictDel(auth_redirs, i)
                        /\ queues' = [queues EXCEPT ![auth_redirs[i].queue] =
                                         Append(@, query)]
                        /\ resolved' = Append(resolved,
                                          [queue |-> auth_redirs[i].queue,
                                           query |-> query])
                /\ response' = RedirectOr(auth_redirs', HTTPFound(url))
    /\ UNCHANGED <<callers, registered>>
    /\ UNCHANGED engineVars

(* ------------------------------- Init ---------------------------------- *)
\* the key sets a mailbox holds when the program starts
InitialKeys(m) ==
    CASE m = "c1" -> SUBSET Keys
      [] m = "c2" -> {{}, {"k1"}}
      [] m = "l1" -> {{}, {"k1"}}
      [] OTHER -> {{}, {"k2"}}

\* what a mailbox holds when the program starts, every message of content a
InitialStores(m) == UNION {[D -> {[mailbox |-> m, content |-> "a"]}] : D \in InitialKeys(m)}

\* the state synchronize_mail starts in, for a configuration of maildirs ls
\* and cloud mailboxes cs whose operations raise the kinds ks
InitConfig(ls, cs, ks) ==
    /\ local_mboxes = ls
    /\ cloud_mboxes = cs
    /\ kinds = ks
    /\ direct_message \in Policies(ls, cs)
    /\ domains = {}
    /\ messages = [m \in Locals \cup Clouds |-> EmptyDict]
    /\ need_update = [m \in Locals \cup Clouds |-> TRUE]
    /\ store \in [Locals \cup Clouds -> UNION {InitialStores(m) : m \in Locals \cup Clouds}]
    /\ \A m \in Locals \cup Clouds :
          /\ store[m] \in InitialStores(m)
          /\ m \notin Range(ls \o cs) => store[m] = EmptyDict
    /\ changed_event = FALSE
    /\ session = [d \in Domains |-> "none"]
    /\ runner = "None"
    /\ listening = FALSE
    /\ pc = "start"
    /\ msgs = << >>
    /\ exc = "None"
    /\ tasks = {}
    /\ logged = FALSE
    /\ slept = 0
    /\ faults = 0
    /\ raised = "None"
    /\ changes = 0
    /\ force_done = FALSE
    /\ quiet = 0
    /\ routed = << >>
    /\ diff = << >>
    /\ forced = {}
    /\ merged = {}
    /\ cleaned = << >>
    /\ stale = FALSE
    /\ failed_at = "None"
    /\ last_ok = << >>
    /\ InitWebServer

(* ------------------------- synchronize_mail ---------------------------- *)
\* main.py lines 53-56 with oauth.py go(): the web server is up and
\* setup_mbox is started on every mailbox; a cloud mailbox's setup_mbox
\* registers its domain in cfg.domains and opens the session as it starts
GoOk ==
    /\ pc = "start"
    /\ runner' = "set"
    /\ listening' = TRUE
    /\ domains' = {DomainOf(c) : c \in Range(cloud_mboxes)}
    /\ session' = [d \in Domains |-> IF d \in domains' THEN "open" ELSE session[d]]
    /\ tasks' = {Task("setup", m, EmptyDict) : m \in Range(all_mboxes)}
    /\ pc' = "setup"
    /\ UNCHANGED <<cfgVars, mboxVars, changed_event, msgs, exc, logged, slept,
                   faults, raised, changes, force_done, quiet, callVars,
                   cleaned, stale,
                   failed_at, last_ok>>

\* oauth.py go() raises: building the AppRunner (line 22, runner stays None),
\* runner.setup() (line 23) or site.start() (line 25)
GoFail(stage, e) ==
    /\ pc = "start"
    /\ runner' = IF stage = "runner" THEN "None" ELSE "set"
    /\ listening' = FALSE
    /\ RaiseOutside(e, {})
    /\ UNCHANGED <<cfgVars, domains, mboxVars, changed_event, session, msgs,
                   raised, changes, force_done,
                   callVars, cleaned, stale,
                   last_ok>>

\* a setup_mbox coroutine returns
SetupDone(t) ==
    /\ pc \in Suspended
    /\ t \in tasks /\ t.op = "setup"
    /\ tasks' = tasks \ {t}
    /\ UNCHANGED <<cfgVars, domains, mboxVars, changed_event, session, webVars,
                   pc, msgs, exc, logged, slept, faults, raised, changes,
                   force_done, quiet, callVars, cleaned, stale,
                   failed_at, last_ok>>

\* a setup_mbox coroutine raises: main.py line 55 is outside the inner try,
\* so whatever its kind the exception leaves the loop
SetupFail(t, e) ==
    /\ pc \in Suspended
    /\ t \in tasks /\ t.op = "setup"
    /\ IF t.awaited
       THEN RaiseOutside(e, Orphaned(tasks \ {t}))
       ELSE /\ tasks' = tasks \ {t}
            /\ UNCHANGED <<exc, pc, failed_at, logged, slept, faults, quiet>>
    /\ UNCHANGED <<cfgVars, domains, mboxVars, changed_event, session, webVars,
                   msgs, raised, changes, force_done,
                   callVars, cleaned, stale,
                   last_ok>>

\* main.py lines 55-59: the setup gather is complete, msgs = None, first cycle
SetupJoin ==
    /\ pc = "setup"
    /\ Awaited = {}
    /\ LoopTop(tasks)
    /\ msgs' = << >>
    /\ UNCHANGED <<cfgVars, domains, mboxVars, changed_event, session, webVars,
                   exc, logged, slept, faults, raised, changes, force_done,
                   quiet, cleaned,
                   failed_at, last_ok>>

\* an update_message_list coroutine returns: the snapshot is what the store
\* holds, the mailbox is clean
UpdateDone(t) ==
    /\ pc \in Suspended
    /\ t \in tasks /\ t.op = "update"
    /\ tasks' = tasks \ {t}
    /\ messages' = [messages EXCEPT ![t.on] = store[t.on]]
    /\ need_update' = [need_update EXCEPT ![t.on] = FALSE]
    /\ quiet' = IF t.awaited THEN quiet ELSE 0
    /\ UNCHANGED <<cfgVars, domains, store, changed_event, session, webVars,
                   pc, msgs, exc, logged, slept, faults, raised, changes,
                   force_done, callVars, cleaned, stale,
                   failed_at, last_ok>>

\* an update_message_list coroutine raises (main.py lines 61-63, 69-75)
UpdateFail(t, e) ==
    /\ pc \in Suspended
    /\ t \in tasks /\ t.op = "update"
    /\ IF t.awaited
       THEN /\ faults < MaxFaults
            /\ RetryOrRaise(e, Orphaned(tasks \ {t}))
       ELSE /\ tasks' = tasks \ {t}
            /\ UNCHANGED <<exc, pc, failed_at, logged, slept, faults, quiet>>
    /\ UNCHANGED <<cfgVars, domains, mboxVars, changed_event, session, webVars,
                   msgs, raised, changes, force_done, callVars, cleaned, stale,
                   last_ok>>

\* a loop that never gets to update_cloud_from_local
MsgsIsNoneAlways == TRUE

\* main.py line 65: "msgs is not None" fails until line 68 has assigned msgs
MsgsIsNone == Len(msgs) = 0

\* main.py lines 65-66 with update_cloud_from_local: on the first cycle
\* nothing, later the diff against msgs and merge_content on the mailboxes
\* that differ
AfterRefresh ==
    /\ pc = "refresh"
    /\ Awaited = {}
    /\ IF MsgsIsNone
       THEN /\ pc' = "force"
            /\ diff' = << >>
            /\ merged' = {}
            /\ UNCHANGED <<tasks, stale>>
       ELSE LET by_cloud == MsgsByCloud(msgs[1])
            IN  /\ tasks' = tasks \cup {Task("merge", c, by_cloud[c]) :
                                          c \in NeedsMerge(by_cloud)}
                /\ diff' = <<by_cloud>>
                /\ merged' = NeedsMerge(by_cloud)
                /\ stale' = (msgs[1] # Route)
                /\ pc' = "merge"
    /\ UNCHANGED <<cfgVars, domains, mboxVars, changed_event, session, webVars,
                   msgs, exc, logged, slept, faults, raised, changes,
                   force_done, quiet, routed, forced, cleaned,
                   failed_at, last_ok>>

\* a merge_content coroutine returns: the cloud content and its snapshot
\* follow the tuples it was given
MergeDone(t) ==
    /\ pc \in Suspended
    /\ t \in tasks /\ t.op = "merge"
    /\ tasks' = tasks \ {t}
    /\ store' = [store EXCEPT ![t.on] = merge_content(t.on, store[t.on], t.arg)]
    /\ messages' = [messages EXCEPT ![t.on] = merge_content(t.on, messages[t.on], t.arg)]
    /\ quiet' = IF t.awaited THEN quiet ELSE 0
    /\ UNCHANGED <<cfgVars, domains, need_update, changed_event, session,
                   webVars, pc, msgs, exc, logged, slept, faults, raised,
                   changes, force_done, callVars, cleaned, stale,
                   failed_at, last_ok>>

\* a merge_content coroutine raises (main.py lines 66, 69-75)
MergeFail(t, e) ==
    /\ pc \in Suspended
    /\ t \in tasks /\ t.op = "merge"
    /\ IF t.awaited
       THEN /\ faults < MaxFaults
            /\ RetryOrRaise(e, Orphaned(tasks \ {t}))
       ELSE /\ tasks' = tasks \ {t}
            /\ UNCHANGED <<exc, pc, failed_at, logged, slept, faults, quiet>>
    /\ UNCHANGED <<cfgVars, domains, mboxVars, changed_event, session, webVars,
                   msgs, raised, changes, force_done, callVars, cleaned, stale,
                   last_ok>>

\* the merge gather of update_cloud_from_local is complete
AfterMerge ==
    /\ pc = "merge"
    /\ Awaited = {}
    /\ pc' = "force"
    /\ UNCHANGED <<cfgVars, domains, mboxVars, changed_event, session, webVars,
                   msgs, exc, tasks, logged, slept, faults, raised, changes,
                   force_done, quiet, callVars, cleaned, stale,
                   failed_at, last_ok>>

\* the mailbox contents after force_content has run on the maildirs of done
AfterForce(cur, target, done) ==
    [m \in DOMAIN cur |-> IF m \in done THEN force_content(m, target[m]) ELSE cur[m]]

\* msgs assigned the routing of a call that raised
MsgsAfterRaiseAssigned(target) == <<target>>

\* what msgs holds when force_local_to_cloud has raised: line 68 assigns it
\* only when the call returns
MsgsAfterRaise(target) == msgs

\* an event cleared before it is waited for
EventAtWaitCleared == FALSE

\* main.py line 77: changed_event as wait() finds it; a flag set while the
\* cycle ran is still set
EventAtWait == changed_event

\* main.py lines 68 and 77: force_local_to_cloud returns, msgs is the routed
\* dict, and the loop waits for changed_event (at once when it is set)
ForceOk ==
    /\ pc = "force"
    /\ LET target == Route
           done == ForcedUpTo(target, Len(local_mboxes))
       IN  /\ messages' = AfterForce(messages, target, done)
           /\ store' = AfterForce(store, target, done)
           /\ msgs' = <<target>>
           /\ last_ok' = <<target>>
           /\ routed' = <<target>>
           /\ forced' = done
    /\ force_done' = TRUE
    /\ logged' = FALSE
    /\ quiet' = IF \E m \in Range(all_mboxes) : need_update[m] THEN 0
                 ELSE IF quiet < 2 THEN quiet + 1 ELSE quiet
    /\ changed_event' = EventAtWait
    /\ pc' = IF EventAtWait THEN "woke" ELSE "wait"
    /\ UNCHANGED <<cfgVars, domains, need_update, session,
                   webVars, exc, tasks, slept, faults, raised, changes, diff,
                   merged, cleaned, stale,
                   failed_at>>

\* force_local_to_cloud raises in force_content on the i-th maildir (line
\* 29): the maildirs before it are forced already, msgs is not assigned
ForceFail(i, e) ==
    /\ pc = "force"
    /\ faults < MaxFaults
    /\ i \in DOMAIN local_mboxes
    /\ LET target == Route
           done == ForcedUpTo(target, i - 1)
       IN  /\ NeedsForce(local_mboxes[i], target)
           /\ messages' = AfterForce(messages, target, done)
           /\ store' = AfterForce(store, target, done)
           /\ msgs' = MsgsAfterRaise(target)
           /\ routed' = <<target>>
           /\ forced' = done \cup {local_mboxes[i]}
    /\ RetryOrRaise(e, tasks)
    /\ UNCHANGED <<cfgVars, domains, need_update, changed_event, session,
                   webVars, raised, changes, force_done, diff, merged, cleaned,
                   stale,
                   last_ok>>

\* main.py line 77: changed_event.wait() returns
WaitReturn ==
    /\ pc = "wait"
    /\ changed_event
    /\ pc' = "woke"
    /\ UNCHANGED <<cfgVars, domains, mboxVars, changed_event, session, webVars,
                   msgs, exc, tasks, logged, slept, faults, raised, changes,
                   force_done, quiet, callVars, cleaned, stale,
                   failed_at, last_ok>>

\* an event that is left as it is
EventLeft == changed_event

\* main.py line 78: changed_event.clear()
EventClear == FALSE

\* main.py lines 78-80 and the top of the loop: clear, cleanup_msgs(msgs)
Woke ==
    /\ pc = "woke"
    /\ changed_event' = EventClear
    /\ cleaned' = msgs
    /\ LoopTop(tasks)
    /\ UNCHANGED <<cfgVars, domains, mboxVars, session, webVars, msgs, exc,
                   logged, slept, faults, raised, changes, force_done, quiet,
                   failed_at, last_ok>>

\* main.py line 79: cleanup_msgs raises, outside the inner try
CleanupFail(e) ==
    /\ pc = "woke"
    /\ changed_event' = EventClear
    /\ RaiseOutside(e, tasks)
    /\ UNCHANGED <<cfgVars, domains, mboxVars, session, webVars, msgs,
                   raised, changes, force_done,
                   callVars, cleaned, stale,
                   last_ok>>

\* main.py lines 74-75: the sleep is over, continue
SleepDone ==
    /\ pc = "sleep"
    /\ LoopTop(tasks)
    /\ exc' = "None"
    /\ failed_at' = "None"
    /\ UNCHANGED <<cfgVars, domains, mboxVars, changed_event, session, webVars,
                   msgs, logged, slept, faults, raised, changes,
                   force_done, quiet, cleaned,
                   last_ok>>

\* a domain.close() coroutine returns: the provider session is closed
CloseDone(t) ==
    /\ pc = "td_domains"
    /\ t \in tasks /\ t.op = "close"
    /\ tasks' = tasks \ {t}
    /\ session' = [session EXCEPT ![t.on] = "closed"]
    /\ UNCHANGED <<cfgVars, domains, mboxVars, changed_event, webVars, pc,
                   msgs, exc, logged, slept, faults, raised, changes,
                   force_done, quiet, callVars, cleaned, stale,
                   failed_at, last_ok>>

\* oauth.py close(), line 28: cleanup only when a runner was made
WebCloseAwaits == runner # "None"

\* main.py lines 82-85: the close gather is complete, cfg.domains = {} and
\* web_app.close() is called
TeardownJoin ==
    /\ pc = "td_domains"
    /\ Awaited = {}
    /\ domains' = {}
    /\ IF WebCloseAwaits
       THEN /\ pc' = "td_web"
            /\ UNCHANGED raised
       ELSE /\ pc' = "exited"
            /\ raised' = exc
    /\ UNCHANGED <<cfgVars, mboxVars, changed_event, session, webVars, msgs,
                   exc, tasks, logged, slept, faults, changes, force_done,
                   quiet, callVars, cleaned, stale,
                   failed_at, last_ok>>

\* oauth.py line 29: runner.cleanup() returns, the listener is closed, and the
\* exception leaves synchronize_mail
WebCloseDone ==
    /\ pc = "td_web"
    /\ listening' = FALSE
    /\ pc' = "exited"
    /\ raised' = exc
    /\ UNCHANGED <<cfgVars, domains, mboxVars, changed_event, session, runner,
                   msgs, exc, tasks, logged, slept, faults, changes,
                   force_done, quiet, callVars, cleaned, stale,
                   failed_at, last_ok>>

(* ---------------------------- environment ------------------------------ *)
\* a dict with key ch set to a record of content v, or without it for "del"
Changed(m, d, ch, v) ==
    IF v = "del"
    THEN [c \in DOMAIN d \ {ch} |-> d[c]]
    ELSE [c \in DOMAIN d \cup {ch} |-> IF c = ch THEN [mailbox |-> m, content |-> v] ELSE d[c]]

\* somebody else changes a mailbox (a mail client on the maildir, the
\* provider on the cloud side); the mailbox notices, marks itself and sets
\* Mailbox.changed_event
ExtChange(m, ch, v) ==
    /\ pc \in {"refresh", "merge", "sleep", "wait"}
    /\ changes < MaxChanges
    /\ m \in Range(all_mboxes)
    /\ Changed(m, store[m], ch, v) # store[m]
    /\ store' = [store EXCEPT ![m] = Changed(m, store[m], ch, v)]
    /\ need_update' = [need_update EXCEPT ![m] = TRUE]
    /\ changed_event' = TRUE
    /\ changes' = changes + 1
    /\ quiet' = 0
    /\ UNCHANGED <<cfgVars, domains, messages, session, webVars, pc, msgs, exc,
                   tasks, logged, slept, faults, raised, force_done, callVars,
                   cleaned, stale,
                   failed_at, last_ok>>

(* ---------------------------- specification ---------------------------- *)
Next ==
    \/ GoOk /\ UNCHANGED authVars
    \/ \E stage \in {"runner", "setup", "start"}, e \in kinds : GoFail(stage, e) /\ UNCHANGED authVars
    \/ \E t \in tasks : SetupDone(t) /\ UNCHANGED authVars
    \/ \E t \in tasks, e \in kinds : SetupFail(t, e) /\ UNCHANGED authVars
    \/ SetupJoin /\ UNCHANGED authVars
    \/ \E t \in tasks : UpdateDone(t) /\ UNCHANGED authVars
    \/ \E t \in tasks, e \in kinds : UpdateFail(t, e) /\ UNCHANGED authVars
    \/ AfterRefresh /\ UNCHANGED authVars
    \/ \E t \in tasks : MergeDone(t) /\ UNCHANGED authVars
    \/ \E t \in tasks, e \in kinds : MergeFail(t, e) /\ UNCHANGED authVars
    \/ AfterMerge /\ UNCHANGED authVars
    \/ ForceOk /\ UNCHANGED authVars
    \/ \E i \in 1..Cardinality(Locals), e \in kinds : ForceFail(i, e) /\ UNCHANGED authVars
    \/ WaitReturn /\ UNCHANGED authVars
    \/ Woke /\ UNCHANGED authVars
    \/ \E e \in kinds : CleanupFail(e) /\ UNCHANGED authVars
    \/ SleepDone /\ UNCHANGED authVars
    \/ \E t \in tasks : CloseDone(t) /\ UNCHANGED authVars
    \/ TeardownJoin /\ UNCHANGED authVars
    \/ WebCloseDone /\ UNCHANGED authVars
    \/ \E m \in Locals \cup Clouds, ch \in Keys, v \in Contents \cup {"del"} :
          ExtChange(m, ch, v) /\ UNCHANGED authVars

\* one maildir and one cloud mailbox, operations raising every kind
Init == InitConfig(<<"l1">>, <<"c1">>, ErrorKinds)

Spec == Init /\ [][Next]_vars

\* several mailboxes on either side, or no cloud mailbox at all
InitSync ==
    \/ InitConfig(<<"l1">>, <<"c1", "c2">>, {"TimeoutError"})
    \/ InitConfig(<<"l1", "l2">>, <<"c1">>, {"TimeoutError"})
    \/ InitConfig(<<"l1">>, << >>, {"TimeoutError"})

SpecSync == InitSync /\ [][Next]_vars

\* the web server with the coroutines that authenticate through it
NextAuth ==
    \/ GoOk /\ UNCHANGED authVars
    \/ \E p \in Callers, state \in Tokens : auth_redir(p, Urls[p], state)
    \/ \E p \in Callers : QueueGet(p)
    \/ _start
    \/ \E query \in Queries(hits + 1) : _oauth2_msal(query)

InitAuth == InitConfig(<<"l1">>, << >>, {"TimeoutError"})

SpecAuth == InitAuth /\ [][NextAuth]_vars

\* the steps in which an operation that is under way returns and the loop
\* goes on: the event loop runs every coroutine that is ready
Progress ==
    \/ GoOk /\ UNCHANGED authVars
    \/ \E t \in tasks : SetupDone(t) /\ UNCHANGED authVars
    \/ SetupJoin /\ UNCHANGED authVars
    \/ \E t \in tasks : UpdateDone(t) /\ UNCHANGED authVars
    \/ AfterRefresh /\ UNCHANGED authVars
    \/ \E t \in tasks : MergeDone(t) /\ UNCHANGED authVars
    \/ AfterMerge /\ UNCHANGED authVars
    \/ ForceOk /\ UNCHANGED authVars
    \/ WaitReturn /\ UNCHANGED authVars
    \/ Woke /\ UNCHANGED authVars
    \/ SleepDone /\ UNCHANGED authVars
    \/ \E t \in tasks : CloseDone(t) /\ UNCHANGED authVars
    \/ TeardownJoin /\ UNCHANGED authVars
    \/ WebCloseDone /\ UNCHANGED authVars

\* the loop when operations that no longer fail return in the end
SpecLive == Init /\ [][Next]_vars /\ WF_vars(Progress)

(* ------------------------------ properties ----------------------------- *)
\* the steps of an update cycle: refresh, upward merge, route and force
CycleSteps == {"refresh", "merge", "force"}

\* the transient kinds the design names: connection failures, request
\* timeouts, generic I/O errors, file-not-found
TransientKinds == {"ClientError", "TimeoutError", "OSError", "FileNotFoundError"}

C2_TransientRetried ==
    [][/\ (pc \in CycleSteps /\ exc' \in TransientKinds) =>
              /\ pc' = "sleep"
              /\ logged'
              /\ slept' = 10
              /\ changed_event' = changed_event
              /\ cleaned' = cleaned
       /\ (pc = "sleep" /\ pc' # "sleep") =>
              /\ pc' = "refresh"
              /\ changed_event' = changed_event
              /\ cleaned' = cleaned]_vars

\* C2 witness: as many failures in a row as the environment injects, before
\* any cycle has completed, and the loop is in its retry sleep again
C2_Witness ==
    /\ pc = "sleep"
    /\ faults = MaxFaults
    /\ ~force_done
    /\ exc \in TransientKinds

\* C3 as stated: an error of a kind outside the transient kinds, raised in a
\* step of a cycle, leaves the loop.
C3_Original ==
    [][(pc \in CycleSteps /\ exc' \in ErrorKinds \ TransientKinds) =>
          pc' = "td_domains"]_vars

\* C3 amended: an error raised in a step of a cycle whose kind is neither a
\* transient kind nor RuntimeError leaves the loop, which is never entered
\* again; the teardown runs and the error is what synchronize_mail raises.
C3_FatalLeavesLoop ==
    [][/\ (pc \in CycleSteps /\ exc' \in ErrorKinds \ (TransientKinds \cup {"RuntimeError"})) =>
              pc' = "td_domains"
       /\ pc \in {"td_domains", "td_web"} =>
              /\ pc' \in {"td_domains", "td_web", "exited"}
              /\ exc' = exc
       /\ pc' = "exited" => raised' = exc /\ ~listening' /\ domains' = {}]_vars

\* C3 witness: a KeyError raised in a step of a cycle has left
\* synchronize_mail after the teardown
C3_Witness ==
    /\ pc = "exited"
    /\ failed_at \in CycleSteps
    /\ raised = "KeyError"
    /\ ~listening

\* the step in which update_cloud_from_local builds its diff
DiffStep == pc = "refresh" /\ pc' = "merge"

\* the step in which force_local_to_cloud returns
ForceReturns == pc = "force" /\ pc' \in {"wait", "woke"}

\* C4 as stated: in a cycle that retries an abandoned one, the routing the
\* upward-merge diff uses is the one the snapshots give at the retry.
C4_Original ==
    (logged /\ pc \in {"merge", "force"} /\ Len(diff) > 0) => ~stale

\* C4 amended: in a cycle that retries an abandoned one, the upward-merge
\* diff uses the routing returned by the last force_local_to_cloud that
\* completed (nothing of the abandoned attempt), pairs every entry of it
\* with the maildir's record as it is at the retry, and only the retried
\* force_local_to_cloud routes the snapshots anew.
C4_RetryUsesLastCompletedRouting ==
    [][/\ (DiffStep /\ logged) =>
              /\ msgs' = msgs
              /\ msgs = last_ok
              /\ \A c \in Range(cloud_mboxes) : \A ch \in DOMAIN diff'[1][c] :
                    \E l \in Range(local_mboxes) :
                        /\ ch \in DOMAIN msgs[1][l]
                        /\ diff'[1][c][ch] = <<Get(messages[l], ch), msgs[1][l][ch]>>
              /\ \A l \in Range(local_mboxes) : \A ch \in DOMAIN msgs[1][l] :
                    ch \in DOMAIN diff'[1][msgs[1][l][ch].mailbox]
       /\ (ForceReturns /\ logged) => msgs' = <<Route>>]_vars

\* C4 witness: a retried cycle has built its diff from a routing that is not
\* the one its snapshots give
C4_Witness ==
    /\ logged
    /\ pc = "merge"
    /\ stale

\* the maildir's record for ch has the content of the cloud message
SameContent(l, ch, msg) ==
    /\ ch \in DOMAIN messages'[l]
    /\ messages'[l][ch].content = msg.content

\* C5: merge_content runs on no mailbox before a force_local_to_cloud has
\* returned, and when the first one returns every maildir holds exactly the
\* cloud messages directed to it.
C5_FirstCycle ==
    [][/\ \A t \in tasks' : t.op = "merge" => force_done'
       /\ (ForceReturns /\ ~force_done) =>
              \A l \in Range(local_mboxes) :
                  /\ \A c \in Range(cloud_mboxes) : \A ch \in DOMAIN messages[c] :
                        direct_message[messages[c][ch]] = l =>
                            SameContent(l, ch, messages[c][ch])
                  /\ \A ch \in DOMAIN messages'[l] :
                        \E c \in Range(cloud_mboxes) :
                            /\ ch \in DOMAIN messages[c]
                            /\ direct_message[messages[c][ch]] = l]_vars

\* a key the maildir l holds and no cloud snapshot does
NotInCloud(l, ch) ==
    /\ ch \in DOMAIN messages[l]
    /\ \A c \in Range(cloud_mboxes) : ch \notin DOMAIN messages[c]

\* a key the maildir l has gained since the last routing: it is in no cloud
\* snapshot and in no dict of msgs
LocalOnly(l, ch) ==
    /\ NotInCloud(l, ch)
    /\ Len(msgs) > 0
    /\ \A l2 \in Range(local_mboxes) : ch \notin DOMAIN msgs[1][l2]

\* C6 as stated: a key a maildir has gained, in no cloud snapshot, shows in
\* the next diff as (local record, no cloud record) and merge_content runs
\* on the cloud mailbox that gets the entry.
C6_Original ==
    [][(DiffStep /\ cloud_mboxes # << >>) =>
          \A l \in Range(local_mboxes) : \A ch \in Keys :
              LocalOnly(l, ch) =>
                  \E c \in Range(cloud_mboxes) :
                      /\ ch \in DOMAIN diff'[1][c]
                      /\ diff'[1][c][ch] = <<messages[l][ch], NoMsg>>
                      /\ c \in merged']_vars

\* C6 amended: a key a maildir has gained, in no cloud snapshot, is in no
\* entry of the next diff, whose entries are the keys of the last routing
\* and always hold a cloud record of the mailbox they are listed under; the
\* force_local_to_cloud that follows forces that maildir and the key is gone.
C6_LocalOnlyNotMerged ==
    [][/\ DiffStep =>
              /\ \A l \in Range(local_mboxes) : \A ch \in Keys :
                    LocalOnly(l, ch) =>
                        \A c \in Range(cloud_mboxes) : ch \notin DOMAIN diff'[1][c]
              /\ \A c \in Range(cloud_mboxes) : \A ch \in DOMAIN diff'[1][c] :
                    /\ diff'[1][c][ch][2] # NoMsg
                    /\ diff'[1][c][ch][2].mailbox = c
       /\ ForceReturns =>
              \A l \in Range(local_mboxes) : \A ch \in Keys :
                  NotInCloud(l, ch) =>
                      /\ l \in forced'
                      /\ ch \notin DOMAIN messages'[l]]_vars

\* C6 witness: a diff has been built while a maildir held a key it had
\* gained since the last routing
C6_Witness ==
    /\ pc = "merge"
    /\ Len(diff) > 0
    /\ force_done
    /\ \E l \in Range(local_mboxes) : \E ch \in Keys : LocalOnly(l, ch)

\* C7: when force_local_to_cloud has built its dicts, every message of every
\* cloud snapshot is in the dict of the maildir it is directed to, under its
\* own key.
C7_RoutingComplete ==
    [][(pc = "force" /\ pc' # "force") =>
          \A c \in Range(cloud_mboxes) : \A ch \in DOMAIN messages[c] :
              LET dest == direct_message[messages[c][ch]]
              IN  /\ ch \in DOMAIN routed'[1][dest]
                  /\ routed'[1][dest][ch] = messages[c][ch]]_vars

\* C8: every record of the dict force_local_to_cloud builds for a maildir is
\* directed to that maildir by cfg.direct_message.
C8_NoCrossContamination ==
    Len(routed) > 0 =>
        \A l \in DOMAIN routed[1] : \A ch \in DOMAIN routed[1][l] :
            direct_message[routed[1][l][ch]] = l

\* C8 witness: two maildirs, each with messages directed to it, and one of
\* them forced
C8_Witness ==
    /\ Len(routed) > 0
    /\ forced # {}
    /\ \E a \in DOMAIN routed[1] : \E b \in DOMAIN routed[1] :
          /\ a # b
          /\ routed[1][a] # EmptyDict
          /\ routed[1][b] # EmptyDict

\* C9: a cycle that completes after a completed cycle, with no change from
\* outside and no failure since that one began, forces no maildir and merges
\* into no cloud mailbox.
C9_Convergence ==
    (pc \in {"wait", "woke"} /\ quiet = 2) => (forced = {} /\ merged = {})


\* the callers that have called auth_redir hold pairwise distinct state tokens
DistinctTokens ==
    \A p \in Callers : \A p2 \in Callers :
        (p # p2 /\ callers[p].at # "idle" /\ callers[p2].at # "idle") =>
            callers[p].state # callers[p2].state

\* the callback requests that put something on the queue of caller p
PutsTo(p) == {i \in DOMAIN resolved : resolved[i].queue = p}

\* C10: with concurrent auth_redir calls under pairwise distinct state
\* tokens and callbacks in any order, a caller's queue is put to only by a
\* callback that carries the caller's own state token, and at most once; a
\* callback for the token of a suspended caller puts its own query on that
\* caller's queue and on no other; a caller that resumes returns exactly the
\* query of the callback that carried its token.
C10_AuthMultiplexing ==
    [][DistinctTokens' =>
          \A p \in Callers :
              /\ Cardinality(PutsTo(p)') <= 1
              /\ \A i \in PutsTo(p)' :
                    /\ "state" \in DOMAIN resolved'[i].query
                    /\ resolved'[i].query.state = callers'[p].state
              /\ (hits' = hits + 1 /\ callers[p].at = "get" /\ PutsTo(p) = {}) =>
                    IF "state" \in DOMAIN request'.query /\ request'.query.state = callers[p].state
                    THEN /\ queues'[p] = <<request'.query>>
                         /\ resolved' = Append(resolved, [queue |-> p, query |-> request'.query])
                    ELSE queues'[p] = queues[p]
              /\ (callers'[p].at = "returned") =>
                    /\ \E i \in PutsTo(p)' : callers'[p].result = resolved'[i].query
                    /\ callers'[p].result.state = callers'[p].state
                    /\ callers[p].at = "returned" => callers'[p].result = callers[p].result]_vars

\* three flows are registered as s1, s2, s3 and resolved in the opposite
\* order, and every caller has returned with the query of its own callback
C10_Witness ==
    /\ DistinctTokens
    /\ registered = <<"p1", "p2", "p3">>
    /\ Len(resolved) = 3
    /\ [i \in 1..3 |-> resolved[i].queue] = <<"p3", "p2", "p1">>
    /\ \A p \in Callers :
          /\ callers[p].at = "returned"
          /\ callers[p].result.state = callers[p].state
    /\ callers["p1"].result.code # callers["p2"].result.code
    /\ callers["p2"].result.code # callers["p3"].result.code

\* a step of _start: a request for "/" that touches nothing of the server
RootStep ==
    /\ request'.path = "/"
    /\ UNCHANGED <<auth_redirs, queues, callers, registered, resolved, hits>>

\* a step of _oauth2_msal on a request that carries a state parameter
CallbackStep ==
    /\ hits' = hits + 1
    /\ "state" \in DOMAIN request'.query

\* the authorization URLs of the entries of a dict
PendingUrls(d) == {d[i].url : i \in DOMAIN d}

\* the state tokens of the entries of a dict
PendingTokens(d) == {d[i].state : i \in DOMAIN d}

\* C11: "/" answers with a redirect to the URL of an entry that is pending
\* then when there is one, and with the "Authentication done" page only when
\* there is none; a token that is pending stays pending until a callback
\* with that token is handled, and its entry is the same until then unless
\* auth_redir is called; a callback that carries a state redirects, after
\* handling, to the URL of an entry that is still pending, else to the
\* server's own URL.
C11_RootRedirectsWhilePending ==
    [][/\ RootStep =>
              IF auth_redirs # << >>
              THEN /\ response'.status = "302 Found"
                   /\ response'.body \in PendingUrls(auth_redirs)
              ELSE response' = Response("Authentication done")
       /\ \A s \in PendingTokens(auth_redirs) :
              \/ s \in PendingTokens(auth_redirs')
              \/ CallbackStep /\ request'.query.state = s
       /\ registered' = registered =>
              \A i \in DOMAIN auth_redirs :
                  \/ \E j \in DOMAIN auth_redirs' : auth_redirs'[j] = auth_redirs[i]
                  \/ CallbackStep /\ request'.query.state = auth_redirs[i].state
       /\ CallbackStep =>
              /\ response'.status = "302 Found"
              /\ IF auth_redirs' # << >>
                 THEN response'.body \in PendingUrls(auth_redirs')
                 ELSE response'.body = url]_vars

\* C11 witness: s1 then s2 were registered, the callback for s2 came first,
\* only the caller of s2 has returned, and "/" has then redirected to the
\* URL of s1's flow
C11_Witness ==
    /\ registered = <<"p1", "p2">>
    /\ callers["p1"].state = "s1" /\ callers["p2"].state = "s2"
    /\ Len(resolved) = 1 /\ resolved[1].queue = "p2"
    /\ callers["p2"].at = "returned"
    /\ callers["p1"].at = "get" /\ queues["p1"] = << >>
    /\ request.path = "/"
    /\ response = HTTPFound(Urls["p1"])

\* C12: a callback whose state is the token of no pending entry (a token
\* never registered, or one an earlier callback has consumed) changes
\* nothing: auth_redirs is the same, nothing is put on any queue, no caller
\* moves, and the answer is the usual redirect (to a pending entry's URL,
\* else to the server's own URL), not an error.
C12_UnknownStateIgnored ==
    [][(CallbackStep /\ request'.query.state \notin PendingTokens(auth_redirs)) =>
          /\ auth_redirs' = auth_redirs
          /\ queues' = queues
          /\ callers' = callers
          /\ resolved' = resolved
          /\ response' = IF auth_redirs # << >>
                         THEN HTTPFound(auth_redirs[1].url)
                         ELSE HTTPFound(url)]_vars

\* C12 witness: the token of the first callback is sent again while another
\* caller is still suspended, and the answer redirects to that caller's URL
C12_Witness ==
    /\ hits = 2
    /\ Len(resolved) = 1
    /\ request.path = "/oauth2/msal"
    /\ "state" \in DOMAIN request.query
    /\ request.query.state = resolved[1].query.state
    /\ request.query.code # resolved[1].query.code
    /\ \E p \in Callers : callers[p].at = "get" /\ queues[p] = << >>
                          /\ response = HTTPFound(callers[p].url)

\* caller p is suspended in queue.get() on a queue that is empty and that no
\* entry of auth_redirs holds
Abandoned(p) ==
    /\ callers[p].at = "get"
    /\ queues[p] = << >>
    /\ \A i \in DOMAIN auth_redirs : auth_redirs[i].queue # p

\* C13: auth_redirs holds at most one entry per state token; an auth_redir
\* call under a token that is pending puts its own entry in the place of the
\* earlier one, whose caller is left with a queue nobody holds; a callback
\* for the token then puts its query on the queue of the later caller only,
\* and the earlier caller stays suspended through everything that follows.
C13_SecondCallReplacesFirst ==
    [][/\ Cardinality(PendingTokens(auth_redirs')) = Len(auth_redirs')
       /\ \A p \in Callers :
              /\ (callers[p].at = "idle" /\ callers'[p].at = "get") =>
                    /\ \E i \in DOMAIN auth_redirs' :
                          auth_redirs'[i] = [state |-> callers'[p].state,
                                             url |-> callers'[p].url,
                                             queue |-> p]
                    /\ \A i \in DOMAIN auth_redirs :
                          auth_redirs[i].state = callers'[p].state =>
                              /\ Len(auth_redirs') = Len(auth_redirs)
                              /\ \A p1 \in Callers :
                                    p1 = auth_redirs[i].queue => Abandoned(p1)'
              /\ Abandoned(p) => Abandoned(p)'
              /\ (CallbackStep /\ queues'[p] # queues[p]) =>
                    /\ \E i \in DOMAIN auth_redirs :
                          auth_redirs[i].queue = p
                          /\ auth_redirs[i].state = request'.query.state
                    /\ queues'[p] = <<request'.query>>
                    /\ \A p2 \in Callers \ {p} : queues'[p2] = queues[p2]]_vars

\* C13 witness: p1 and then p2 called auth_redir under s1; the first
\* callback for s1 resumed p2, a second callback for s1 was handled, and p1
\* is still suspended
C13_Witness ==
    /\ registered = <<"p1", "p2">>
    /\ callers["p1"].state = "s1" /\ callers["p2"].state = "s1"
    /\ hits = 2
    /\ request.query = [state |-> "s1", code |-> "y"]
    /\ callers["p2"].at = "returned"
    /\ callers["p2"].result = [state |-> "s1", code |-> "x"]
    /\ Abandoned("p1")

\* the coroutines of kind op that the gather of the running cycle awaits
AwaitedOf(op) == {t \in tasks : t.awaited /\ t.op = op}

\* C14 as stated: a merge_content of a cycle runs only when the
\* force_local_to_cloud of that cycle has returned, and the diff it comes
\* from is built on the routing of that call.
C14_Original ==
    AwaitedOf("merge") # {} =>
        /\ Len(routed) > 0
        /\ \A c \in Range(cloud_mboxes) : \A ch \in DOMAIN diff[1][c] :
              \E l \in Range(local_mboxes) :
                  /\ ch \in DOMAIN routed[1][l]
                  /\ diff[1][c][ch][2] = routed[1][l][ch]

\* C14 amended: a cycle runs refresh, then upward merge, then route and
\* force.  The diff is built when every update_message_list of the cycle
\* has returned and before the cycle's force_local_to_cloud has started,
\* from the routing of the last force_local_to_cloud that returned (in an
\* earlier cycle); there is no merge only while no such routing exists;
\* force_local_to_cloud starts when every merge_content of the cycle has
\* returned, and the wait is reached only from its return.
C14_MergeBeforeForce ==
    [][/\ (AwaitedOf("merge")' # AwaitedOf("merge") /\ AwaitedOf("merge") = {}) =>
              /\ DiffStep
              /\ AwaitedOf("update") = {}
       /\ DiffStep =>
              /\ AwaitedOf("update") = {}
              /\ Len(routed') = 0 /\ forced' = {}
              /\ Len(msgs) > 0 /\ msgs = last_ok
              /\ \A c \in Range(cloud_mboxes) : \A ch \in DOMAIN diff'[1][c] :
                    \E l \in Range(local_mboxes) :
                        /\ ch \in DOMAIN last_ok[1][l]
                        /\ diff'[1][c][ch][2] = last_ok[1][l][ch]
       /\ (pc # "force" /\ pc' = "force") =>
              /\ AwaitedOf("merge") = {} /\ AwaitedOf("update") = {}
              /\ \/ pc = "merge"
                 \/ pc = "refresh" /\ ~force_done /\ Len(msgs) = 0
       /\ (pc # pc' /\ pc' \in {"wait", "woke"} /\ pc # "wait") =>
              /\ pc = "force"
              /\ Len(routed') > 0
              /\ msgs' = routed']_vars

\* C14 witness: merge_content is running in a cycle whose
\* force_local_to_cloud has not started, on a diff built from the routing of
\* the cycle before, which forced a maildir
C14_Witness ==
    /\ pc = "merge"
    /\ AwaitedOf("merge") # {}
    /\ Len(routed) = 0
    /\ force_done
    /\ msgs = last_ok
    /\ \E l \in Range(local_mboxes) : msgs[1][l] # EmptyDict

\* C15: when the loop starts a cycle, no update_message_list and no
\* merge_content of an earlier cycle is still running, and
\* update_message_list is never running twice on one mailbox.
C15_RefreshFanIn ==
    /\ \A t \in tasks : t.op \in {"update", "merge"} =>
          (t.awaited \/ pc \notin CycleSteps \cup {"wait", "woke"})
    /\ \A t \in tasks : \A t2 \in tasks :
          (t.op = "update" /\ t2.op = "update" /\ t.on = t2.on) => t = t2

\* a step of a mailbox that has noticed a change from outside
MailboxStep == changes' = changes + 1

\* C16: changed_event goes from clear to set only in a step of a mailbox,
\* and from set to clear only in the step the loop takes at line 78, after
\* the wait has returned; every pass from the wait to the next refresh (or
\* out of the loop, when cleanup_msgs raises) goes through that step, which
\* leaves the event clear, so it is cleared once for each cycle that
\* completed; no step of a cycle and no retry sleep clears it.
C16_SignalClearedOncePerCycle ==
    [][/\ (~changed_event /\ changed_event') => MailboxStep
       /\ (changed_event /\ ~changed_event') =>
              /\ pc = "woke"
              /\ pc' \in {"refresh", "td_domains"}
              /\ force_done
       /\ (pc = "woke" /\ pc' # "woke") => ~changed_event'
       /\ (pc = "wait" /\ pc' # "wait") => (pc' = "woke" /\ changed_event)
       /\ (pc # "woke" /\ pc' = "woke") => (pc \in {"wait", "force"} /\ changed_event)
       /\ (pc \in CycleSteps \cup {"sleep"} /\ pc' \in CycleSteps \cup {"sleep"}) =>
              (changed_event => changed_event')]_vars

\* C16 witness: an event set while a cycle was running has been cleared
\* after that cycle completed, and the next cycle has started its refresh
C16_Witness ==
    /\ pc = "refresh"
    /\ force_done
    /\ changes > 0
    /\ ~changed_event
    /\ cleaned # << >>

\* the step in which cleanup_msgs is called (it returns, or it raises)
CleanupStep == pc = "woke" /\ pc' # "woke"

\* C17: cleanup_msgs is called only when the wait has returned, once for
\* each return; its argument is the dict returned by the
\* force_local_to_cloud of the cycle that has just completed; and no
\* update_message_list or merge_content is running when it is called.
C17_CleanupAfterWake ==
    [][/\ cleaned' # cleaned => CleanupStep
       /\ (pc # "woke" /\ pc' = "woke") => (pc \in {"wait", "force"} /\ changed_event)
       /\ CleanupStep =>
              /\ Len(msgs) > 0
              /\ msgs = routed
              /\ msgs = last_ok
              /\ pc' = "refresh" => cleaned' = msgs
              /\ \A t \in tasks : t.op \notin {"update", "merge"}]_vars

\* every cloud snapshot is empty, or there is no cloud mailbox
NoCloudMessage == \A c \in Range(cloud_mboxes) : messages[c] = EmptyDict

\* C18: when force_local_to_cloud returns, the maildirs force_content was
\* called on are those whose snapshot same_messages found different from
\* the dict routed to them, each is left with that dict and the others as
\* they were; with no cloud message at all every dict is empty and every
\* maildir that held something is forced empty.  When force_content raises,
\* the maildirs it had been called on are among the differing ones.
C18_ForceExactlyWhenDifferent ==
    [][/\ ForceReturns =>
              /\ Len(routed') = 1
              /\ forced' = {l \in Range(local_mboxes) :
                               ~same_messages(l, routed'[1][l], FALSE)}
              /\ \A l \in Range(local_mboxes) :
                    /\ l \notin forced' => messages'[l] = messages[l]
                    /\ DOMAIN messages'[l] = DOMAIN routed'[1][l]
                    /\ \A ch \in DOMAIN routed'[1][l] :
                          messages'[l][ch].content = routed'[1][l][ch].content
              /\ NoCloudMessage =>
                    \A l \in Range(local_mboxes) :
                        /\ routed'[1][l] = EmptyDict
                        /\ messages[l] # EmptyDict =>
                              (l \in forced' /\ messages'[l] = EmptyDict)
       /\ (pc = "force" /\ pc' \in {"sleep", "td_domains"}) =>
              forced' \subseteq {l \in Range(local_mboxes) :
                                    ~same_messages(l, routed'[1][l], FALSE)}]_vars

\* C18 witness: with no cloud mailbox configured, a maildir that held a
\* message has been forced empty
C18_Witness ==
    /\ cloud_mboxes = << >>
    /\ pc \in {"wait", "woke"}
    /\ forced = {"l1"}
    /\ routed = <<[l \in {"l1"} |-> EmptyDict]>>
    /\ messages["l1"] = EmptyDict
    /\ store["l1"] = EmptyDict

\* synchronize_mail is in its finally block, or has been left
Leaving == pc \in {"td_domains", "td_web", "exited"}

\* C19: a changed_event that is set stays set through the steps of a cycle
\* and the retry sleep; when force_local_to_cloud returns with the event
\* set, the wait returns at once; and, operations returning in the end and
\* failing only finitely often, a set changed_event leads to a state in
\* which the loop has cleared it and started a refresh, unless an error has
\* taken the loop to its finally block.
C19_NoLostNotification ==
    /\ [][/\ (changed_event /\ pc \in CycleSteps \cup {"sleep", "wait"}) => changed_event'
          /\ (changed_event /\ pc = "force" /\ pc' \notin {"force", "sleep", "td_domains"}) =>
                 pc' = "woke"]_vars
    /\ (changed_event ~> ((~changed_event /\ pc = "refresh") \/ Leaving))

\* C19 witness: an event set during a cycle that was then abandoned is still
\* set when the retried cycle has completed, and the wait has returned
C19_Witness ==
    /\ pc = "woke"
    /\ changed_event
    /\ faults > 0
    /\ changes > 0
    /\ tasks = {}

\* the places outside the update cycle where an operation is awaited or
\* called: web_app.go(), the setup_mbox gather, cleanup_msgs after the wake
OutsideCycle == {"start", "setup", "woke"}

\* C20: an error of a transient kind that go(), setup_mbox or cleanup_msgs
\* raises is not logged, slept on or retried: the loop goes to its finally
\* block at once, never returns to a cycle, and synchronize_mail raises
\* that error once the teardown is done.
C20_RetryCoversCycleOnly ==
    [][/\ (pc \in OutsideCycle /\ exc' # exc /\ exc' \in TransientKinds) =>
              /\ pc' = "td_domains"
              /\ failed_at' = pc
              /\ logged' = logged /\ slept' = slept /\ faults' = faults
       /\ (pc # "sleep" /\ pc' = "sleep") => pc \in CycleSteps
       /\ (Leaving /\ failed_at \in OutsideCycle) =>
              /\ Leaving'
              /\ exc' = exc
              /\ pc' = "exited" => (raised' = exc /\ ~listening' /\ domains' = {})]_vars

\* C20 witness: cleanup_msgs raised a timeout after a wake and
\* synchronize_mail has been left with it, the listener closed
C20_Witness ==
    /\ pc = "exited"
    /\ failed_at = "woke"
    /\ raised = "TimeoutError"
    /\ force_done
    /\ ~listening
    /\ session["d1"] = "closed"

====
